---- MODULE Spec2Model ----
(***************************************************************************)
(* A model of the transcoding job handler of                               *)
(* infrastructure/runpod/handler/main.py: one invocation of handler(job),  *)
(* stepped call by call through probing, encoding, upload and the signed   *)
(* webhook.  The external tools, the object stores and the webhook         *)
(* endpoint are the environment: each call's outcome is chosen             *)
(* nondeterministically.                                                   *)
(***************************************************************************)
EXTENDS Integers, Sequences, FiniteSets, TLC

\* ---------------------------------------------------------------- bounds

\* Segment files (segment_000.ts, ...) one HLS encode leaves beside its playlist.
SegmentsPerEncode == 1

\* Probed durations 0..MaxShortDuration are all tried, beside the long ones.
MaxShortDuration == 2

\* ------------------------------------------------------- optional values

\* Python's None, and a present value.
None == <<>>
Some(v) == <<v>>

\* Python truthiness of an int | None (main.py:319 tests `source_height and ...`).
Truthy(x) == x # None /\ x[1] # 0

\* The elements of a sequence.
Range(seq) == { seq[i] : i \in DOMAIN seq }

\* ----------------------------------------------------- program constants

\* HLS_VARIANTS, in the dict's insertion order.
HLS_VARIANTS ==
    << [name |-> "1080p", height |-> 1080, video_bitrate |-> 5000, audio_bitrate |-> 192],
       [name |-> "720p",  height |-> 720,  video_bitrate |-> 3000, audio_bitrate |-> 128],
       [name |-> "480p",  height |-> 480,  video_bitrate |-> 1500, audio_bitrate |-> 96],
       [name |-> "360p",  height |-> 360,  video_bitrate |-> 800,  audio_bitrate |-> 64] >>

\* AUDIO_VARIANTS, in the dict's insertion order (no height, no video bitrate).
AUDIO_VARIANTS ==
    << [name |-> "128k", height |-> 0, video_bitrate |-> 0, audio_bitrate |-> 128],
       [name |-> "64k",  height |-> 0, video_bitrate |-> 0, audio_bitrate |-> 64] >>

PREVIEW_DURATION == 30
PREVIEW_HEIGHT == 720
HLS_SEGMENT_DURATION == 6

\* The slice bound of `error_msg[:2000]` (line 823).
ERROR_CAP == 2000

\* ------------------------------------------------------------ job inputs

\* The payload's identity fields: two jobs that differ in every one of them.
JobIdentities ==
    { [mediaId |-> "m1", creatorId |-> "c1",
       webhookUrl |-> "https://api.example.com/webhook", webhookSecret |-> "s1"],
      [mediaId |-> "m2", creatorId |-> "c2",
       webhookUrl |-> "https://hooks.example.org/cb", webhookSecret |-> "s2"] }

\* job_input["type"]: the two declared types and one that is neither.
MediaTypes == {"video", "audio", "image"}

\* What the payload lacks: nothing; one of mediaId/creatorId/type/inputKey; or the
\* storage fields r2*/b2* (the payload of tests/unit/test_handler.py, whose
\* credentials "come from environment, not payload").
\* webhookUrl and webhookSecret are always there: without them no notification
\* can be addressed at all.
MissingFields == {"none", "identity", "storage"}

\* ffprobe's report: format.duration truncated to an int, and the first video
\* stream's height (None: no video stream).
Durations == {-1} \cup (0 .. MaxShortDuration) \cup {5, 10, 100, 300}
SourceHeights == {None, Some(0), Some(240), Some(360), Some(719), Some(720), Some(1080), Some(2160)}

\* width is reported with height, from the same stream.
WidthOf(h) == IF h = None THEN None ELSE Some((h[1] * 16) \div 9)

\* ----------------------------------------------------------------- state

VARIABLES
    job,            \* job["input"]: identity fields, type, and what the payload lacks
    pc,             \* the handler's position
    use_gpu,        \* check_gpu_available()'s result
    work_dir,       \* "none" | "exists" | "removed": the mkdtemp directory
    disk,           \* files beneath work_dir
    r2,             \* keys put into the delivery store by this job
    b2,             \* keys put into the archival store by this job
    duration,       \* get_media_info: None until probed
    width,
    height,
    loudness,       \* analyze_loudness's return value, None before
    ladder_i,       \* position of the ladder loop in HLS_VARIANTS / AUDIO_VARIANTS
    ready_variants, \* names appended so far
    master,         \* the master playlist's stream entries, None until written
    upload_i,       \* position of upload_directory in its walk of hls_dir
    keys,           \* the handler's *_key locals
    error_msg,      \* str(e) in the except clause, None outside it
    posts,          \* the webhook POSTs attempted, in order
    ret,            \* handler's return value, None until it returns
    exc,            \* the exception handler raised to its caller, None if none
    trace           \* every external call made, in order

vars == << job, pc, use_gpu, work_dir, disk, r2, b2, duration, width, height,
           loudness, ladder_i, ready_variants, master, upload_i, keys,
           error_msg, posts, ret, exc, trace >>

\* Groups for UNCHANGED.
media_vars == << duration, width, height >>
store_vars == << r2, b2 >>
ladder_vars == << ladder_i, ready_variants, master >>
exit_vars == << posts, ret, exc >>

\* ------------------------------------------------------------- file names

\* A file beneath work_dir: root "hls" (inside hls_dir) or "work"; rel is its
\* path relative to that root, ext the suffix endswith() tests.
File(root, rel, ext) == [root |-> root, rel |-> rel, ext |-> ext]

Digits == << "0", "1", "2", "3", "4", "5", "6", "7", "8", "9" >>

\* "segment_%03d.ts" for i = 0, 1, ...
SegmentName(i) == "segment_00" \o Digits[i + 1] \o ".ts"

\* What one HLS encode writes into hls_dir/<sub>/: the playlist and its segments.
HlsOutputs(sub, playlist) ==
    { File("hls", sub \o "/" \o playlist, ".m3u8") } \cup
    { File("hls", sub \o "/" \o SegmentName(i), ".ts") : i \in 0 .. (SegmentsPerEncode - 1) }

MasterFile == File("hls", "master.m3u8", ".m3u8")

\* ------------------------------------------------------------ object keys

HlsPrefix(j) == j.creatorId \o "/hls/" \o j.mediaId \o "/"
MezzanineKey(j) == j.creatorId \o "/mezzanine/" \o j.mediaId \o "/mezzanine.mp4"
ThumbnailKey(j) == j.creatorId \o "/thumbnails/" \o j.mediaId \o "/auto-generated.jpg"
WaveformKey(j) == j.creatorId \o "/waveforms/" \o j.mediaId \o "/waveform.json"
WaveformImageKey(j) == j.creatorId \o "/waveforms/" \o j.mediaId \o "/waveform.png"

NoKeys == [ mezzanine |-> None, hls_master |-> None, hls_preview |-> None,
            thumbnail |-> None, waveform |-> None, waveform_image |-> None ]

\* ---------------------------------------------------------- external calls

\* One external call as the handler makes it: the tool or client method, the
\* stage that made it, its arguments, how the call ended, and whether an
\* exception of it reached the handler's body.
Call(op, stage, args, outcome, raised) ==
    [op |-> op, stage |-> stage, args |-> args, outcome |-> outcome, raised |-> raised]

\* subprocess.run(..., check=True, timeout=...): exit 0, CalledProcessError, TimeoutExpired.
RunOutcomes == {"ok", "nonzero", "timeout"}

\* A boto3 transfer: done, or an exception.
S3Outcomes == {"ok", "error"}

\* requests.post + raise_for_status: the final response's class, or an exception
\* of the request itself.
PostOutcomes == {"2xx", "3xx", "5xx", "timeout"}

\* raise_for_status raises for 400..599 only; a timeout raises from requests.post.
PostRaises(o) == o \in {"4xx", "5xx", "timeout"}

\* ------------------------------------------------------------ message text

\* A Python str, as runs of characters (code points) of one class: "ascii" is
\* printable ASCII that JSON leaves alone, "quote" is ASCII that JSON escapes in
\* two characters (a double quote, a backslash, a newline), "latin1" is
\* U+0080..U+00FF, "bmp" is the rest of the basic plane, and "astral" lies
\* beyond it.
CharClasses == {"ascii", "quote", "latin1", "bmp", "astral"}
Run(cls, n) == [cls |-> cls, n |-> n]

\* len(s).
RECURSIVE TextLen(_)
TextLen(t) == IF t = << >> THEN 0 ELSE Head(t).n + TextLen(Tail(t))

\* s[:k] for k >= 0: the first k characters.
RECURSIVE Take(_, _)
Take(t, k) ==
    IF t = << >> \/ k <= 0 THEN << >>
    ELSE IF Head(t).n >= k THEN << Run(Head(t).cls, k) >>
    ELSE << Head(t) >> \o Take(Tail(t), k - Head(t).n)

\* Bytes one character of the class takes in UTF-8.
Utf8Width(cls) ==
    CASE cls \in {"ascii", "quote"} -> 1
      [] cls = "latin1" -> 2
      [] cls = "bmp" -> 3
      [] cls = "astral" -> 4

\* Characters json.dumps writes for one character of the class inside a string
\* (ensure_ascii, the default): itself, a two-character escape, \uXXXX, or a
\* surrogate pair of two \uXXXX.
JsonWidth(cls) ==
    CASE cls = "ascii" -> 1
      [] cls = "quote" -> 2
      [] cls \in {"latin1", "bmp"} -> 6
      [] cls = "astral" -> 12

\* str.encode(encoding): runs of bytes.  ASCII characters are one and the same
\* byte in both encodings; any other character's bytes depend on the encoding,
\* and ISO-8859-1 has none for a character beyond U+00FF.
EncodeText(t, encoding) ==
    [ i \in DOMAIN t |->
        IF t[i].cls \in {"ascii", "quote"}
        THEN [cls |-> t[i].cls, enc |-> "ascii", n |-> t[i].n]
        ELSE IF encoding = "utf-8"
        THEN [cls |-> t[i].cls, enc |-> "utf-8", n |-> Utf8Width(t[i].cls) * t[i].n]
        ELSE IF t[i].cls = "latin1"
        THEN [cls |-> t[i].cls, enc |-> "iso-8859-1", n |-> t[i].n]
        ELSE [cls |-> t[i].cls, enc |-> "UnicodeEncodeError", n |-> 0] ]

\* len(b) of encoded bytes.
RECURSIVE ByteLen(_)
ByteLen(b) == IF b = << >> THEN 0 ELSE Head(b).n + ByteLen(Tail(b))

\* str(e) of a failed tool run: the command line and how it ended, all ASCII
\* (the paths are under the tempfile directory).  The messages of the other
\* failures after the download are sampled by this one text too.
CommandText == << Run("ascii", 120), Run("quote", 2), Run("ascii", 40) >>

\* str(e): which stage raised, how, and the message's text.
MsgText(stage, kind, text) == [stage |-> stage, kind |-> kind, text |-> text]
Msg(stage, kind) == MsgText(stage, kind, CommandText)

\* str(e) of a failed download: botocore's ClientError ends with the message
\* the storage service sent, which is free text: short, of exactly ERROR_CAP
\* characters, one more, not ASCII, and long and not ASCII.
DownloadErrorTexts ==
    { << Run("ascii", 80) >>,
      << Run("ascii", ERROR_CAP) >>,
      << Run("ascii", ERROR_CAP + 1) >>,
      << Run("ascii", 80), Run("latin1", 8), Run("quote", 2) >>,
      << Run("ascii", 80), Run("bmp", ERROR_CAP), Run("astral", 4) >> }

\* ------------------------------------------------------------------ Init

Jobs ==
    { [ mediaId |-> i.mediaId, creatorId |-> i.creatorId, type |-> t,
        webhookUrl |-> i.webhookUrl, webhookSecret |-> i.webhookSecret,
        missing |-> m ] : i \in JobIdentities, t \in MediaTypes, m \in MissingFields }

Init ==
    /\ job \in Jobs
    /\ pc = "start"
    /\ use_gpu = FALSE
    /\ work_dir = "none"
    /\ disk = {}
    /\ r2 = {}
    /\ b2 = {}
    /\ duration = None
    /\ width = None
    /\ height = None
    /\ loudness = None
    /\ ladder_i = 1
    /\ ready_variants = << >>
    /\ master = None
    /\ upload_i = 1
    /\ keys = NoKeys
    /\ error_msg = None
    /\ posts = << >>
    /\ ret = None
    /\ exc = None
    /\ trace = << >>

\* --------------------------------------------------- leaving the handler

\* An exception raised outside the try statement (lines 663-689) leaves handler.
Propagate(stage, kind) ==
    /\ exc' = Some(Msg(stage, kind))
    /\ pc' = "raised"

\* An except clause that names subprocess.CalledProcessError only: a
\* TimeoutExpired passes it by, and with it the failed report and the error return.
RaiseNonZeroOnly(stage, kind) ==
    /\ error_msg' = IF kind = "timeout" THEN None ELSE Some(Msg(stage, kind))
    /\ pc' = IF kind = "timeout" THEN "finally" ELSE "except"

\* An exception raised inside the try statement is caught by `except Exception
\* as e` (line 805): error_msg = str(e).
Raise(stage, kind) ==
    /\ error_msg' = Some(Msg(stage, kind))
    /\ pc' = "except"

\* ------------------------------------------------- before the try statement

\* Lines 663-668: job["input"] and its mediaId, creatorId, type, inputKey.
ReadInput ==
    /\ pc = "start"
    /\ IF job.missing = "identity"
       THEN Propagate("input", "KeyError")
       ELSE pc' = "clients" /\ UNCHANGED exc
    /\ UNCHANGED << job, use_gpu, work_dir, disk, store_vars, media_vars, loudness,
                    ladder_vars, upload_i, keys, error_msg, posts, ret, trace >>

\* Lines 673-682: the two create_s3_client calls; their arguments are read from
\* the payload first, and boto3.client may itself raise.
CreateClients ==
    /\ pc = "clients"
    /\ IF job.missing = "storage"
       THEN /\ Propagate("clients", "KeyError")
            /\ UNCHANGED trace
       ELSE \E o \in S3Outcomes :
              /\ trace' = Append(trace, Call("create_s3_client", "clients", [store |-> "r2+b2"], o, o # "ok"))
              /\ IF o = "ok"
                 THEN pc' = "gpu" /\ UNCHANGED exc
                 ELSE Propagate("clients", o)
    /\ UNCHANGED << job, use_gpu, work_dir, disk, store_vars, media_vars, loudness,
                    ladder_vars, upload_i, keys, error_msg, posts, ret >>

\* `ffmpeg -encoders` as check_gpu_available sees it: a listing with or without
\* h264_nvenc, or an exception of subprocess.run (binary missing, timeout).
EncoderListings == {"with_nvenc", "without_nvenc", "missing_binary", "timeout"}

\* What the run of `ffmpeg -encoders` gave: stdout with the codec's name, stdout
\* without it, or an exception.
ListingOutcome(l) ==
    CASE l = "with_nvenc" -> "nvenc"
      [] l = "without_nvenc" -> "no_nvenc"
      [] OTHER -> "error"

\* A detection that takes a failed listing for a capable encoder.
check_gpu_availableUnlessListedAbsent(listing) == listing # "without_nvenc"

\* check_gpu_available: true iff the listing names h264_nvenc; any exception is
\* caught and gives false.
check_gpu_available(listing) == listing = "with_nvenc"

\* Line 685.
CheckGpu ==
    /\ pc = "gpu"
    /\ \E l \in EncoderListings :
         /\ use_gpu' = check_gpu_available(l)
         /\ trace' = Append(trace, Call("ffmpeg", "gpu_check", [list |-> "encoders", timeout |-> 10],
                             ListingOutcome(l), FALSE))
    /\ pc' = "mkdtemp"
    /\ UNCHANGED << job, work_dir, disk, store_vars, media_vars, loudness,
                    ladder_vars, upload_i, keys, error_msg, exit_vars >>

\* Line 689: tempfile.mkdtemp, which may raise OSError.
MakeWorkDir ==
    /\ pc = "mkdtemp"
    /\ \E o \in {"ok", "OSError"} :
         /\ trace' = Append(trace, Call("mkdtemp", "mkdtemp", [prefix |-> "transcoding_"], o, o # "ok"))
         /\ IF o = "ok"
            THEN work_dir' = "exists" /\ pc' = "download" /\ UNCHANGED exc
            ELSE Propagate("mkdtemp", o) /\ UNCHANGED work_dir
    /\ UNCHANGED << job, use_gpu, disk, store_vars, media_vars, loudness,
                    ladder_vars, upload_i, keys, error_msg, posts, ret >>

\* ------------------------------------------------------ download and probe

\* Download with one more attempt after a failed one.
DownloadWithRetry ==
    /\ pc = "download"
    /\ \E o1, o2 \in S3Outcomes :
         LET call(o) == Call("download_file", "download", [store |-> "r2"], o, o # "ok")
             last == IF o1 = "ok" THEN o1 ELSE o2
         IN /\ trace' = IF o1 = "ok" THEN Append(trace, call(o1))
                                     ELSE trace \o << call(o1), call(o2) >>
            /\ IF last = "ok"
               THEN /\ disk' = disk \cup { File("work", "input", "") }
                    /\ pc' = "probe"
                    /\ UNCHANGED error_msg
               ELSE /\ \E text \in DownloadErrorTexts :
                         error_msg' = Some(MsgText("download", last, text))
                    /\ pc' = "except"
                    /\ UNCHANGED disk
    /\ UNCHANGED << job, use_gpu, work_dir, store_vars, media_vars, loudness,
                    ladder_vars, upload_i, keys, exit_vars >>

\* Lines 693-695: download_file(r2_client, ...).
Download ==
    /\ pc = "download"
    /\ \E o \in S3Outcomes :
         /\ trace' = Append(trace, Call("download_file", "download", [store |-> "r2"], o, o # "ok"))
         /\ IF o = "ok"
            THEN /\ disk' = disk \cup { File("work", "input", "") }
                 /\ pc' = "probe"
                 /\ UNCHANGED error_msg
            ELSE /\ \E text \in DownloadErrorTexts :
                      error_msg' = Some(MsgText("download", o, text))
                 /\ pc' = "except"
                 /\ UNCHANGED disk
    /\ UNCHANGED << job, use_gpu, work_dir, store_vars, media_vars, loudness,
                    ladder_vars, upload_i, keys, exit_vars >>

\* probe_media + get_media_info (lines 172-200) fail on a non-zero exit or a
\* timeout of ffprobe (check=True), on output json.loads rejects, and on a
\* format.duration float() rejects.
ProbeFailures == {"nonzero", "timeout", "bad_json", "bad_duration"}

\* Lines 698-699.
Probe ==
    /\ pc = "probe"
    /\ \/ \E d \in Durations, h \in SourceHeights :
            /\ trace' = Append(trace, Call("ffprobe", "probe", [timeout |-> 30], "ok", FALSE))
            /\ duration' = Some(d)
            /\ width' = WidthOf(h)
            /\ height' = h
            /\ pc' = "mezzanine"
            /\ UNCHANGED error_msg
       \/ \E o \in ProbeFailures :
            /\ trace' = Append(trace, Call("ffprobe", "probe", [timeout |-> 30], o, TRUE))
            /\ Raise("probe", o)
            /\ UNCHANGED media_vars
    /\ UNCHANGED << job, use_gpu, work_dir, disk, store_vars, loudness,
                    ladder_vars, upload_i, keys, exit_vars >>

\* ----------------------------------------------------------------- mezzanine

\* The codec template an encode uses (the two branches of `if use_gpu`).
Codec(gpu) == IF gpu THEN "h264_nvenc" ELSE "libx264"

\* CreateMezzanine without its test of the media type.
CreateMezzanineAnyType ==
    /\ pc = "mezzanine"
    /\ \E o \in RunOutcomes :
         /\ trace' = Append(trace, Call("ffmpeg", "mezzanine",
                             [codec |-> Codec(use_gpu), timeout |-> 3600], o, o # "ok"))
         /\ keys' = [keys EXCEPT !.mezzanine = Some(MezzanineKey(job))]
         /\ IF o = "ok"
            THEN /\ disk' = disk \cup { File("work", "mezzanine", ".mp4") }
                 /\ pc' = "mezzanine_upload"
                 /\ UNCHANGED error_msg
            ELSE Raise("mezzanine", o) /\ UNCHANGED disk
    /\ UNCHANGED << job, use_gpu, work_dir, store_vars, media_vars, loudness,
                    ladder_vars, upload_i, exit_vars >>

\* Lines 703-716: video: create_mezzanine, then (line 708) its upload; any other
\* type: mezzanine_key = None.
CreateMezzanine ==
    /\ pc = "mezzanine"
    /\ IF job.type = "video"
       THEN \E o \in RunOutcomes :
              /\ trace' = Append(trace, Call("ffmpeg", "mezzanine",
                                  [codec |-> Codec(use_gpu), timeout |-> 3600], o, o # "ok"))
              /\ keys' = [keys EXCEPT !.mezzanine = Some(MezzanineKey(job))]
              /\ IF o = "ok"
                 THEN /\ disk' = disk \cup { File("work", "mezzanine", ".mp4") }
                      /\ pc' = "mezzanine_upload"
                      /\ UNCHANGED error_msg
                 ELSE Raise("mezzanine", o) /\ UNCHANGED disk
       ELSE /\ keys' = [keys EXCEPT !.mezzanine = None]
            /\ pc' = "loudness"
            /\ UNCHANGED << trace, disk, error_msg >>
    /\ UNCHANGED << job, use_gpu, work_dir, store_vars, media_vars, loudness,
                    ladder_vars, upload_i, exit_vars >>

\* UploadMezzanine put off until the loudness pass is done: the measurement is
\* made first, the mezzanine is uploaded after it.
UploadMezzanineAfterLoudness ==
    /\ pc = "mezzanine_upload"
    /\ \E o \in S3Outcomes :
         /\ trace' = trace \o
                << Call("ffmpeg", "loudness",
                        [af |-> "loudnorm=I=-16:TP=-1.5:LRA=11:print_format=json", timeout |-> 300],
                        "ok", FALSE),
                   Call("upload_file", "mezzanine_upload",
                        [store |-> "b2", key |-> MezzanineKey(job), content_type |-> Some("video/mp4")],
                        o, o # "ok") >>
         /\ IF o = "ok"
            THEN /\ b2' = b2 \cup { MezzanineKey(job) }
                 /\ pc' = "loudness"
                 /\ UNCHANGED error_msg
            ELSE Raise("mezzanine_upload", o) /\ UNCHANGED b2
    /\ UNCHANGED << job, use_gpu, work_dir, disk, r2, media_vars, loudness,
                    ladder_vars, upload_i, keys, exit_vars >>

\* Lines 708-714: upload_file(b2_client, ..., mezzanine_key, ..., "video/mp4").
UploadMezzanine ==
    /\ pc = "mezzanine_upload"
    /\ \E o \in S3Outcomes :
         /\ trace' = Append(trace, Call("upload_file", "mezzanine_upload",
                             [store |-> "b2", key |-> MezzanineKey(job), content_type |-> Some("video/mp4")],
                             o, o # "ok"))
         /\ IF o = "ok"
            THEN /\ b2' = b2 \cup { MezzanineKey(job) }
                 /\ pc' = "loudness"
                 /\ UNCHANGED error_msg
            ELSE Raise("mezzanine_upload", o) /\ UNCHANGED b2
    /\ UNCHANGED << job, use_gpu, work_dir, disk, r2, media_vars, loudness,
                    ladder_vars, upload_i, keys, exit_vars >>

\* Where a stage stands in handler's try block (lines 693-801); the calls made
\* before it stand at 0.
StageRank(stage) ==
    CASE stage = "download" -> 1
      [] stage = "probe" -> 2
      [] stage = "mezzanine" -> 3
      [] stage = "mezzanine_upload" -> 4
      [] stage = "loudness" -> 5
      [] stage = "ladder" -> 6
      [] stage = "hls_upload" -> 7
      [] stage = "preview" -> 8
      [] stage = "thumbnail" -> 9
      [] stage = "thumbnail_upload" -> 10
      [] stage = "waveform" -> 11
      [] stage = "waveform_upload" -> 12
      [] stage = "notify" -> 13
      [] stage = "cleanup" -> 14
      [] OTHER -> 0

\* ------------------------------------------------------------------ loudness

\* One field of the loudnorm JSON block as json.loads delivers it: absent, a
\* number (or a string float() accepts), a string float() rejects, or null.
Absent == [kind |-> "absent", value |-> 0]
Number(v) == [kind |-> "number", value |-> v]
Text == [kind |-> "text", value |-> 0]
Null == [kind |-> "null", value |-> 0]

\* What the measurement pass can give: run is subprocess.run's outcome (no
\* check=True: a non-zero exit does not raise), block is what lies between the last
\* "{" and the last "}" of stderr.
LoudnessOutputs ==
    { [run |-> "timeout", block |-> "none",      i |-> Absent,      tp |-> Absent,     lra |-> Absent],
      [run |-> "nonzero", block |-> "none",      i |-> Absent,      tp |-> Absent,     lra |-> Absent],
      [run |-> "ok",      block |-> "none",      i |-> Absent,      tp |-> Absent,     lra |-> Absent],
      [run |-> "ok",      block |-> "malformed", i |-> Absent,      tp |-> Absent,     lra |-> Absent],
      [run |-> "ok",      block |-> "object",    i |-> Number(-14), tp |-> Number(-2), lra |-> Number(5)],
      [run |-> "ok",      block |-> "object",    i |-> Number(-14), tp |-> Absent,     lra |-> Number(5)],
      [run |-> "ok",      block |-> "object",    i |-> Number(-14), tp |-> Text,       lra |-> Null],
      [run |-> "ok",      block |-> "object",    i |-> Number(-14), tp |-> Null,       lra |-> Text] }

LoudnessDefaults == [input_i |-> -16, input_tp |-> -1, input_lra |-> 7]

\* float(loudness_data.get(name, default)) for the three fields in turn: the
\* first field float() cannot take decides: ValueError (a string) or TypeError (null).
FloatError(out) ==
    LET bad(f) == f.kind \in {"text", "null"}
        err(f) == IF f.kind = "text" THEN "ValueError" ELSE "TypeError"
    IN  IF bad(out.i) THEN err(out.i)
        ELSE IF bad(out.tp) THEN err(out.tp)
        ELSE IF bad(out.lra) THEN err(out.lra)
        ELSE "none"

FieldOr(f, default) == IF f.kind = "absent" THEN default ELSE f.value

\* analyze_loudness (lines 270-302): [raised, value]. subprocess.run is outside
\* the try: its TimeoutExpired propagates. json.JSONDecodeError and ValueError are
\* caught and give the defaults; a TypeError of float() is not caught.
analyze_loudness(out) ==
    IF out.run = "timeout" THEN [raised |-> "timeout", value |-> None]
    ELSE IF out.block = "none" THEN [raised |-> "none", value |-> Some(LoudnessDefaults)]
    ELSE IF out.block = "malformed" THEN [raised |-> "none", value |-> Some(LoudnessDefaults)]
    ELSE IF FloatError(out) = "ValueError" THEN [raised |-> "none", value |-> Some(LoudnessDefaults)]
    ELSE IF FloatError(out) = "TypeError" THEN [raised |-> "TypeError", value |-> None]
    ELSE [raised |-> "none",
          value |-> Some([input_i   |-> FieldOr(out.i, -16),
                          input_tp  |-> FieldOr(out.tp, -1),
                          input_lra |-> FieldOr(out.lra, 7)])]

\* Line 719.
AnalyzeLoudness ==
    /\ pc = "loudness"
    /\ \E out \in LoudnessOutputs :
         LET r == analyze_loudness(out) IN
         /\ trace' = Append(trace, Call("ffmpeg", "loudness",
                             [af |-> "loudnorm=I=-16:TP=-1.5:LRA=11:print_format=json", timeout |-> 300],
                             out.run, r.raised # "none"))
         /\ IF r.raised = "none"
            THEN /\ loudness' = r.value
                 /\ pc' = "ladder"
                 /\ UNCHANGED error_msg
            ELSE Raise("loudness", r.raised) /\ UNCHANGED loudness
    /\ UNCHANGED << job, use_gpu, work_dir, disk, store_vars, media_vars,
                    ladder_vars, upload_i, keys, exit_vars >>

\* -------------------------------------------------------------------- ladder

\* Line 726: a video job runs transcode_video_hls, any other transcode_audio_hls.
Ladder(type) == IF type = "video" THEN HLS_VARIANTS ELSE AUDIO_VARIANTS

\* SkipVariant with >= for >: a source of exactly the entry's height is skipped.
SkipVariantAtEqualHeight(source_height, settings) ==
    Truthy(source_height) /\ settings.height >= source_height[1]

\* A skip rule that always keeps the ladder's lowest entry.
SkipVariantKeepLowest(source_height, settings) ==
    Truthy(source_height) /\ settings.height > source_height[1] /\ settings.height > 360

\* Line 319: `if source_height and settings["height"] > source_height: continue`.
SkipVariant(source_height, settings) ==
    Truthy(source_height) /\ settings.height > source_height[1]

\* The loudnorm filter of every rendition encode (lines 358, 394, 451).
EncodeFilter == "loudnorm=I=-16:TP=-1.5:LRA=11"

\* The ffmpeg invocation of one rendition (lines 331-404 video, 440-461 audio).
VariantCall(type, settings, gpu, outcome, raised) ==
    IF type = "video"
    THEN Call("ffmpeg", "ladder",
              [variant |-> settings.name, codec |-> Codec(gpu), scale |-> settings.height,
               video_bitrate |-> settings.video_bitrate, audio_bitrate |-> settings.audio_bitrate,
               af |-> EncodeFilter, hls_time |-> HLS_SEGMENT_DURATION, timeout |-> 3600], outcome, raised)
    ELSE Call("ffmpeg", "ladder",
              [variant |-> settings.name, codec |-> "none", scale |-> 0,
               video_bitrate |-> 0, audio_bitrate |-> settings.audio_bitrate,
               af |-> EncodeFilter, hls_time |-> HLS_SEGMENT_DURATION, timeout |-> 600], outcome, raised)

\* TranscodeVariant with check=True dropped: a failed encode is passed over and
\* the loop goes on to the next variant.
TranscodeVariantToleratesFailure ==
    /\ pc = "ladder"
    /\ ladder_i <= Len(Ladder(job.type))
    /\ LET settings == Ladder(job.type)[ladder_i] IN
       IF job.type = "video" /\ SkipVariant(height, settings)
       THEN /\ ladder_i' = ladder_i + 1
            /\ UNCHANGED << pc, disk, ready_variants, error_msg, trace >>
       ELSE \E o \in RunOutcomes :
              /\ trace' = Append(trace, VariantCall(job.type, settings, use_gpu, o, FALSE))
              /\ disk' = disk \cup HlsOutputs(settings.name, "index.m3u8")
              /\ ready_variants' = Append(ready_variants, settings.name)
              /\ ladder_i' = ladder_i + 1
              /\ UNCHANGED << pc, error_msg >>
    /\ UNCHANGED << job, use_gpu, work_dir, store_vars, media_vars, loudness,
                    master, upload_i, keys, exit_vars >>

\* One turn of the loop over the ladder (lines 317-408, 433-465): skip the
\* variant, or encode it and append its name; a failed encode raises.
TranscodeVariant ==
    /\ pc = "ladder"
    /\ ladder_i <= Len(Ladder(job.type))
    /\ LET settings == Ladder(job.type)[ladder_i] IN
       IF job.type = "video" /\ SkipVariant(height, settings)
       THEN /\ ladder_i' = ladder_i + 1
            /\ UNCHANGED << pc, disk, ready_variants, error_msg, trace >>
       ELSE \E o \in RunOutcomes :
              /\ trace' = Append(trace, VariantCall(job.type, settings, use_gpu, o, o # "ok"))
              /\ IF o = "ok"
                 THEN /\ disk' = disk \cup HlsOutputs(settings.name, "index.m3u8")
                      /\ ready_variants' = Append(ready_variants, settings.name)
                      /\ ladder_i' = ladder_i + 1
                      /\ UNCHANGED << pc, error_msg >>
                 ELSE /\ Raise("ladder", o)
                      /\ UNCHANGED << disk, ready_variants, ladder_i >>
    /\ UNCHANGED << job, use_gpu, work_dir, store_vars, media_vars, loudness,
                    master, upload_i, keys, exit_vars >>

\* The settings of a ladder entry by name.
SettingsOf(type, name) ==
    LET l == Ladder(type) IN l[CHOOSE i \in 1 .. Len(l) : l[i].name = name]

\* One #EXT-X-STREAM-INF entry of the master playlist (lines 415-421, 472-475):
\* bandwidth from the declared bitrate, for video a 16:9 resolution, and the URI.
StreamEntry(type, settings) ==
    IF type = "video"
    THEN [bandwidth |-> settings.video_bitrate * 1000,
          resolution |-> Some(<< (settings.height * 16) \div 9, settings.height >>),
          uri |-> settings.name \o "/index.m3u8"]
    ELSE [bandwidth |-> settings.audio_bitrate * 1000,
          resolution |-> None,
          uri |-> settings.name \o "/index.m3u8"]

\* WriteMaster listing the renditions lowest first.
WriteMasterLowestFirst ==
    /\ pc = "ladder"
    /\ ladder_i > Len(Ladder(job.type))
    /\ master' = Some([ i \in 1 .. Len(ready_variants) |->
                          StreamEntry(job.type,
                                      SettingsOf(job.type, ready_variants[Len(ready_variants) + 1 - i])) ])
    /\ disk' = disk \cup { MasterFile }
    /\ upload_i' = 1
    /\ pc' = "upload_hls"
    /\ UNCHANGED << job, use_gpu, work_dir, store_vars, media_vars, loudness,
                    ladder_i, ready_variants, keys, error_msg, exit_vars, trace >>

\* After the loop (lines 410-423, 467-477): master.m3u8 lists variant_playlists,
\* which holds the same variants as ready_variants.
WriteMaster ==
    /\ pc = "ladder"
    /\ ladder_i > Len(Ladder(job.type))
    /\ master' = Some([ i \in 1 .. Len(ready_variants) |->
                          StreamEntry(job.type, SettingsOf(job.type, ready_variants[i])) ])
    /\ disk' = disk \cup { MasterFile }
    /\ upload_i' = 1
    /\ pc' = "upload_hls"
    /\ UNCHANGED << job, use_gpu, work_dir, store_vars, media_vars, loudness,
                    ladder_i, ready_variants, keys, error_msg, exit_vars, trace >>

\* ---------------------------------------------------------- upload_directory

\* The playlist and segments of one encode, in listing order.
HlsOutputSeq(sub, playlist) ==
    << File("hls", sub \o "/" \o playlist, ".m3u8") >> \o
    [ i \in 1 .. SegmentsPerEncode |-> File("hls", sub \o "/" \o SegmentName(i - 1), ".ts") ]

\* Every file hls_dir can hold, in the order os.walk visits them top-down: the
\* root's own files, then each subdirectory's.
AllHlsFiles ==
    << MasterFile >> \o
    HlsOutputSeq("1080p", "index.m3u8") \o HlsOutputSeq("720p", "index.m3u8") \o
    HlsOutputSeq("480p", "index.m3u8") \o HlsOutputSeq("360p", "index.m3u8") \o
    HlsOutputSeq("128k", "index.m3u8") \o HlsOutputSeq("64k", "index.m3u8") \o
    HlsOutputSeq("preview", "preview.m3u8")

\* Files of other kinds a directory given to upload_directory may hold (the
\* handler's own hls_dir never does).
StrayFiles ==
    << File("hls", "waveform.json", ".json"),
       File("hls", "poster.png", ".png"),
       File("hls", "cover.jpg", ".jpg"),
       File("hls", "frames/first.jpeg", ".jpeg"),
       File("hls", "notes.txt", ".txt"),
       File("hls", "frames/LICENSE", "") >>

\* os.walk(local_dir): the files the directory holds now.
Walk(files) == SelectSeq(AllHlsFiles \o StrayFiles, LAMBDA f : f \in files)

\* A content type for every file: a generic one where the extension is not known.
ContentTypeWithFallback(f) ==
    IF f.ext = ".m3u8" THEN Some("application/vnd.apple.mpegurl")
    ELSE IF f.ext = ".ts" THEN Some("video/MP2T")
    ELSE IF f.ext = ".json" THEN Some("application/json")
    ELSE IF f.ext = ".png" THEN Some("image/png")
    ELSE IF f.ext = ".jpg" \/ f.ext = ".jpeg" THEN Some("image/jpeg")
    ELSE Some("application/octet-stream")

\* Lines 152-162: content type by extension, None for any other.
ContentType(f) ==
    IF f.ext = ".m3u8" THEN Some("application/vnd.apple.mpegurl")
    ELSE IF f.ext = ".ts" THEN Some("video/MP2T")
    ELSE IF f.ext = ".json" THEN Some("application/json")
    ELSE IF f.ext = ".png" THEN Some("image/png")
    ELSE IF f.ext = ".jpg" \/ f.ext = ".jpeg" THEN Some("image/jpeg")
    ELSE None

\* Line 149: key = key_prefix + relative_path.
DirKey(key_prefix, f) == key_prefix \o f.rel

\* One file of upload_directory(r2_client, ..., hls_prefix, hls_dir) (line 733,
\* lines 145-164): upload_file raising ends the walk.
UploadHlsFile ==
    /\ pc = "upload_hls"
    /\ upload_i <= Len(Walk(disk))
    /\ LET f == Walk(disk)[upload_i]
           key == DirKey(HlsPrefix(job), f)
       IN  \E o \in S3Outcomes :
             /\ trace' = Append(trace, Call("upload_file", "hls_upload",
                                 [store |-> "r2", key |-> key, content_type |-> ContentType(f)],
                                 o, o # "ok"))
             /\ IF o = "ok"
                THEN /\ r2' = r2 \cup { key }
                     /\ upload_i' = upload_i + 1
                     /\ UNCHANGED << pc, error_msg >>
                ELSE /\ Raise("hls_upload", o)
                     /\ UNCHANGED << r2, upload_i >>
    /\ UNCHANGED << job, use_gpu, work_dir, disk, b2, media_vars, loudness,
                    ladder_vars, keys, exit_vars >>

\* Lines 734-737, once upload_directory has returned: the master key, and the
\* preview key of a video job.
SetHlsKeys ==
    /\ pc = "upload_hls"
    /\ upload_i > Len(Walk(disk))
    /\ keys' = [keys EXCEPT
                  !.hls_master = Some(HlsPrefix(job) \o "master.m3u8"),
                  !.hls_preview = IF job.type = "video"
                                  THEN Some(HlsPrefix(job) \o "preview/preview.m3u8")
                                  ELSE None]
    /\ pc' = "preview"
    /\ UNCHANGED << job, use_gpu, work_dir, disk, store_vars, media_vars, loudness,
                    ladder_vars, upload_i, error_msg, exit_vars, trace >>

\* ------------------------------------------------------ preview and thumbnail

\* int(duration * 0.1): Python's int() truncates towards zero.
IntTenth(d) == IF d >= 0 THEN d \div 10 ELSE -((-d) \div 10)

Max(a, b) == IF a >= b THEN a ELSE b
Min(a, b) == IF a <= b THEN a ELSE b

\* A clip length that forgets the start offset.
PreviewLengthFromZero(d) == Min(PREVIEW_DURATION, d)

\* A timestamp that may be the very first frame.
ThumbnailTimestampFromZero(d) == Max(0, IntTenth(d))

\* A clip of the full preview length whatever the source's.
PreviewLengthFixed(d) == PREVIEW_DURATION

\* Lines 490-491.
PreviewStart(d) == Max(0, IntTenth(d))
PreviewLength(d) == Min(PREVIEW_DURATION, d - PreviewStart(d))

\* Line 567.
ThumbnailTimestamp(d) == Max(1, IntTenth(d))

\* CreatePreview with a capability detection of its own in place of the job's
\* flag.
CreatePreviewRedetects ==
    /\ pc = "preview"
    /\ IF job.type = "video" /\ duration[1] > 0
       THEN \E o \in RunOutcomes, l \in EncoderListings :
              /\ trace' = Append(trace, Call("ffmpeg", "preview",
                                  [ss |-> PreviewStart(duration[1]), t |-> PreviewLength(duration[1]),
                                   scale |-> PREVIEW_HEIGHT, codec |-> Codec(check_gpu_available(l)),
                                   af |-> "", hls_time |-> HLS_SEGMENT_DURATION, timeout |-> 120],
                                  o, o # "ok"))
              /\ IF o = "ok"
                 THEN /\ disk' = disk \cup HlsOutputs("preview", "preview.m3u8")
                      /\ pc' = "thumbnail"
                      /\ UNCHANGED error_msg
                 ELSE Raise("preview", o) /\ UNCHANGED disk
       ELSE /\ pc' = "thumbnail"
            /\ UNCHANGED << trace, disk, error_msg >>
    /\ UNCHANGED << job, use_gpu, work_dir, store_vars, media_vars, loudness,
                    ladder_vars, upload_i, keys, exit_vars >>

\* Lines 740-741: create_preview for a video job of duration > 0, into
\* hls_dir/preview.
CreatePreview ==
    /\ pc = "preview"
    /\ IF job.type = "video" /\ duration[1] > 0
       THEN \E o \in RunOutcomes :
              /\ trace' = Append(trace, Call("ffmpeg", "preview",
                                  [ss |-> PreviewStart(duration[1]), t |-> PreviewLength(duration[1]),
                                   scale |-> PREVIEW_HEIGHT, codec |-> Codec(use_gpu),
                                   af |-> "", hls_time |-> HLS_SEGMENT_DURATION, timeout |-> 120],
                                  o, o # "ok"))
              /\ IF o = "ok"
                 THEN /\ disk' = disk \cup HlsOutputs("preview", "preview.m3u8")
                      /\ pc' = "thumbnail"
                      /\ UNCHANGED error_msg
                 ELSE Raise("preview", o) /\ UNCHANGED disk
       ELSE /\ pc' = "thumbnail"
            /\ UNCHANGED << trace, disk, error_msg >>
    /\ UNCHANGED << job, use_gpu, work_dir, store_vars, media_vars, loudness,
                    ladder_vars, upload_i, keys, exit_vars >>

\* Lines 745-749: thumbnail_key = None; for a video job of duration > 0,
\* extract_thumbnail and the key.
ExtractThumbnail ==
    /\ pc = "thumbnail"
    /\ IF job.type = "video" /\ duration[1] > 0
       THEN \E o \in RunOutcomes :
              /\ trace' = Append(trace, Call("ffmpeg", "thumbnail",
                                  [ss |-> ThumbnailTimestamp(duration[1]), vframes |-> 1, timeout |-> 60],
                                  o, o # "ok"))
              /\ IF o = "ok"
                 THEN /\ disk' = disk \cup { File("work", "thumbnail.jpg", ".jpg") }
                      /\ keys' = [keys EXCEPT !.thumbnail = Some(ThumbnailKey(job))]
                      /\ pc' = "thumbnail_upload"
                      /\ UNCHANGED error_msg
                 ELSE /\ Raise("thumbnail", o)
                      /\ keys' = [keys EXCEPT !.thumbnail = None]
                      /\ UNCHANGED disk
       ELSE /\ keys' = [keys EXCEPT !.thumbnail = None]
            /\ pc' = "waveform"
            /\ UNCHANGED << trace, disk, error_msg >>
    /\ UNCHANGED << job, use_gpu, work_dir, store_vars, media_vars, loudness,
                    ladder_vars, upload_i, exit_vars >>

\* Lines 750-756: upload_file(r2_client, ..., thumbnail_key, ..., "image/jpeg").
UploadThumbnail ==
    /\ pc = "thumbnail_upload"
    /\ \E o \in S3Outcomes :
         /\ trace' = Append(trace, Call("upload_file", "thumbnail_upload",
                             [store |-> "r2", key |-> ThumbnailKey(job), content_type |-> Some("image/jpeg")],
                             o, o # "ok"))
         /\ IF o = "ok"
            THEN /\ r2' = r2 \cup { ThumbnailKey(job) }
                 /\ pc' = "waveform"
                 /\ UNCHANGED error_msg
            ELSE Raise("thumbnail_upload", o) /\ UNCHANGED r2
    /\ UNCHANGED << job, use_gpu, work_dir, disk, b2, media_vars, loudness,
                    ladder_vars, upload_i, keys, exit_vars >>

\* ------------------------------------------------------------------ waveform

\* WaveformJson without its test of the media type.
WaveformJsonAnyType ==
    /\ pc = "waveform"
    /\ keys' = [keys EXCEPT !.waveform = None, !.waveform_image = None]
    /\ \E o \in RunOutcomes :
         /\ trace' = Append(trace, Call("audiowaveform", "waveform",
                             [output |-> "waveform.json", timeout |-> 120], o, o # "ok"))
         /\ IF o = "ok"
            THEN /\ disk' = disk \cup { File("work", "waveform.json", ".json") }
                 /\ pc' = "waveform_png"
                 /\ UNCHANGED error_msg
            ELSE Raise("waveform", o) /\ UNCHANGED disk
    /\ UNCHANGED << job, use_gpu, work_dir, store_vars, media_vars, loudness,
                    ladder_vars, upload_i, exit_vars >>

\* Lines 759-764 and 591-602: waveform_key = waveform_image_key = None; for an
\* audio job, generate_waveform's first audiowaveform run (the JSON data).
WaveformJson ==
    /\ pc = "waveform"
    /\ keys' = [keys EXCEPT !.waveform = None, !.waveform_image = None]
    /\ IF job.type = "audio"
       THEN \E o \in RunOutcomes :
              /\ trace' = Append(trace, Call("audiowaveform", "waveform",
                                  [output |-> "waveform.json", timeout |-> 120], o, o # "ok"))
              /\ IF o = "ok"
                 THEN /\ disk' = disk \cup { File("work", "waveform.json", ".json") }
                      /\ pc' = "waveform_png"
                      /\ UNCHANGED error_msg
                 ELSE Raise("waveform", o) /\ UNCHANGED disk
       ELSE /\ pc' = "notify"
            /\ UNCHANGED << trace, disk, error_msg >>
    /\ UNCHANGED << job, use_gpu, work_dir, store_vars, media_vars, loudness,
                    ladder_vars, upload_i, exit_vars >>

\* Lines 605-618 and 766-767: the second audiowaveform run (the PNG image), then
\* the two keys.
WaveformPng ==
    /\ pc = "waveform_png"
    /\ \E o \in RunOutcomes :
         /\ trace' = Append(trace, Call("audiowaveform", "waveform",
                             [output |-> "waveform.png", timeout |-> 120], o, o # "ok"))
         /\ IF o = "ok"
            THEN /\ disk' = disk \cup { File("work", "waveform.png", ".png") }
                 /\ keys' = [keys EXCEPT !.waveform = Some(WaveformKey(job)),
                                         !.waveform_image = Some(WaveformImageKey(job))]
                 /\ pc' = "waveform_upload_json"
                 /\ UNCHANGED error_msg
            ELSE Raise("waveform", o) /\ UNCHANGED << disk, keys >>
    /\ UNCHANGED << job, use_gpu, work_dir, store_vars, media_vars, loudness,
                    ladder_vars, upload_i, exit_vars >>

\* Lines 768-774: upload_file(r2_client, ..., waveform_key, ..., "application/json").
UploadWaveformJson ==
    /\ pc = "waveform_upload_json"
    /\ \E o \in S3Outcomes :
         /\ trace' = Append(trace, Call("upload_file", "waveform_upload",
                             [store |-> "r2", key |-> WaveformKey(job), content_type |-> Some("application/json")],
                             o, o # "ok"))
         /\ IF o = "ok"
            THEN /\ r2' = r2 \cup { WaveformKey(job) }
                 /\ pc' = "waveform_upload_png"
                 /\ UNCHANGED error_msg
            ELSE Raise("waveform_upload", o) /\ UNCHANGED r2
    /\ UNCHANGED << job, use_gpu, work_dir, disk, b2, media_vars, loudness,
                    ladder_vars, upload_i, keys, exit_vars >>

\* Lines 775-781: upload_file(r2_client, ..., waveform_image_key, ..., "image/png").
UploadWaveformPng ==
    /\ pc = "waveform_upload_png"
    /\ \E o \in S3Outcomes :
         /\ trace' = Append(trace, Call("upload_file", "waveform_upload",
                             [store |-> "r2", key |-> WaveformImageKey(job), content_type |-> Some("image/png")],
                             o, o # "ok"))
         /\ IF o = "ok"
            THEN /\ r2' = r2 \cup { WaveformImageKey(job) }
                 /\ pc' = "notify"
                 /\ UNCHANGED error_msg
            ELSE Raise("waveform_upload", o) /\ UNCHANGED r2
    /\ UNCHANGED << job, use_gpu, work_dir, disk, b2, media_vars, loudness,
                    ladder_vars, upload_i, keys, exit_vars >>

\* ------------------------------------------------------------------- webhook

\* Lines 784-798: the completed result.
CompletedResult ==
    [ status |-> "completed",
      mediaId |-> job.mediaId,
      hlsMasterPlaylistKey |-> keys.hls_master,
      hlsPreviewKey |-> keys.hls_preview,
      thumbnailKey |-> keys.thumbnail,
      waveformKey |-> keys.waveform,
      waveformImageKey |-> keys.waveform_image,
      mezzanineKey |-> keys.mezzanine,
      durationSeconds |-> duration,
      width |-> width,
      height |-> height,
      readyVariants |-> ready_variants,
      error |-> None ]

\* A failed result that reports what the job had produced when it failed.
FailedResultKeepsProgress ==
    [ CompletedResult EXCEPT !.status = "failed", !.error = error_msg ]

\* A slice one character short of the bound.
CapBelowBound(m) == [m EXCEPT !.text = Take(@, ERROR_CAP - 1)]

\* error_msg[:2000] (line 823).
Cap(m) == [m EXCEPT !.text = Take(@, ERROR_CAP)]

\* Lines 810-824: the failed result; error is the caught message, capped.
FailedResult ==
    [ status |-> "failed",
      mediaId |-> job.mediaId,
      hlsMasterPlaylistKey |-> None,
      hlsPreviewKey |-> None,
      thumbnailKey |-> None,
      waveformKey |-> None,
      waveformImageKey |-> None,
      mezzanineKey |-> None,
      durationSeconds |-> None,
      width |-> None,
      height |-> None,
      readyVariants |-> << >>,
      error |-> Some(Cap(error_msg[1])) ]

\* json.dumps with ensure_ascii=False: every character is written as it is
\* (bar the two-character escapes).
json_dumps_raw(result) ==
    [ result EXCEPT !.error =
        IF @ = None THEN None
        ELSE Some([ @[1] EXCEPT !.text =
                      [ i \in DOMAIN @ |->
                          IF @[i].cls = "quote" THEN Run("ascii", 2 * @[i].n) ELSE @[i] ] ]) ]

\* json.dumps(result) (line 639), ensure_ascii by default: the document as a str.
\* Its member names, the ids, the keys and the variant names are ASCII and are
\* written as they are; the error text is written escaped, in ASCII only.
json_dumps(result) ==
    [ result EXCEPT !.error =
        IF @ = None THEN None
        ELSE Some([ @[1] EXCEPT !.text =
                      [ i \in DOMAIN @ |-> Run("ascii", JsonWidth(@[i].cls) * @[i].n) ] ]) ]

\* payload.encode(encoding): the bytes of the serialised document.
EncodePayload(payload, encoding) ==
    [ payload EXCEPT !.error =
        IF @ = None THEN None
        ELSE Some([ @[1] EXCEPT !.text = EncodeText(@, encoding) ]) ]

\* The encodings an HTTP stack gives a str body: http.client's ISO-8859-1, or
\* UTF-8.
WireEncodings == {"iso-8859-1", "utf-8"}

\* sign_payload (lines 626-632): HMAC-SHA256 of the payload's UTF-8 bytes under
\* the secret, as an uninterpreted term.
sign_payload(payload, secret) ==
    [hmac_sha256_key |-> secret, msg |-> EncodePayload(payload, "utf-8")]

\* The request send_webhook makes (lines 639-650) and how it ended: data is the
\* result it was given, body the str json.dumps made of it (the `data=payload`
\* of requests.post).
WebhookPost(url, secret, result, outcome) ==
    [ url |-> url,
      data |-> result,
      body |-> json_dumps(result),
      headers |-> [ ContentType |-> "application/json",
                    XRunpodSignature |-> sign_payload(json_dumps(result), secret) ],
      outcome |-> outcome ]

\* send_webhook(url, secret, result) ending with `outcome`.
send_webhook(url, secret, result, outcome) ==
    /\ posts' = Append(posts, WebhookPost(url, secret, result, outcome))
    /\ trace' = Append(trace, Call("post", "notify", [status |-> result.status, timeout |-> 30],
                                   outcome, PostRaises(outcome)))

\* SuccessReturn with the payload's status word in place of the return's.
SuccessReturnCompleted == [status |-> "completed", mediaId |-> job.mediaId]

\* Line 803.
SuccessReturn == [status |-> "success", mediaId |-> job.mediaId]

\* Line 831.
ErrorReturn == [status |-> "error", error |-> error_msg[1]]

\* Lines 783-803: build the completed result, send it, return success; an
\* exception of send_webhook is inside the try and is caught like a stage's.
NotifyCompleted ==
    /\ pc = "notify"
    /\ \E o \in PostOutcomes :
         /\ send_webhook(job.webhookUrl, job.webhookSecret, CompletedResult, o)
         /\ IF PostRaises(o)
            THEN Raise("webhook", o) /\ UNCHANGED ret
            ELSE /\ ret' = Some(SuccessReturn)
                 /\ pc' = "finally"
                 /\ UNCHANGED error_msg
    /\ UNCHANGED << job, use_gpu, work_dir, disk, store_vars, media_vars, loudness,
                    ladder_vars, upload_i, keys, exc >>

\* ExceptHandler without its send_webhook call.
ExceptHandlerNoWebhook ==
    /\ pc = "except"
    /\ ret' = Some(ErrorReturn)
    /\ pc' = "finally"
    /\ UNCHANGED << job, use_gpu, work_dir, disk, store_vars, media_vars, loudness,
                    ladder_vars, upload_i, keys, error_msg, exc, posts, trace >>

\* ExceptHandler whose inner except reports the webhook's exception as the job's.
ExceptHandlerWebhookErrorWins ==
    /\ pc = "except"
    /\ \E o \in PostOutcomes :
         /\ send_webhook(job.webhookUrl, job.webhookSecret, FailedResult, o)
         /\ ret' = Some(IF PostRaises(o)
                        THEN [status |-> "error", error |-> Msg("webhook", o)]
                        ELSE ErrorReturn)
    /\ pc' = "finally"
    /\ UNCHANGED << job, use_gpu, work_dir, disk, store_vars, media_vars, loudness,
                    ladder_vars, upload_i, keys, error_msg, exc >>

\* ExceptHandler with a second attempt at the failed notification when the
\* first one raised.
ExceptHandlerRetriesWebhook ==
    /\ pc = "except"
    /\ \E o1, o2 \in PostOutcomes :
         LET first == WebhookPost(job.webhookUrl, job.webhookSecret, FailedResult, o1)
             second == WebhookPost(job.webhookUrl, job.webhookSecret, FailedResult, o2)
             call(o) == Call("post", "notify", [status |-> "failed", timeout |-> 30], o, PostRaises(o))
         IN IF PostRaises(o1)
            THEN /\ posts' = posts \o << first, second >>
                 /\ trace' = trace \o << call(o1), call(o2) >>
            ELSE /\ posts' = Append(posts, first)
                 /\ trace' = Append(trace, call(o1))
    /\ ret' = Some(ErrorReturn)
    /\ pc' = "finally"
    /\ UNCHANGED << job, use_gpu, work_dir, disk, store_vars, media_vars, loudness,
                    ladder_vars, upload_i, keys, error_msg, exc >>

\* Lines 805-831: the except clause: build the failed result, send it inside its
\* own try (an exception of this send is printed and dropped), return error.
ExceptHandler ==
    /\ pc = "except"
    /\ \E o \in PostOutcomes :
         send_webhook(job.webhookUrl, job.webhookSecret, FailedResult, o)
    /\ ret' = Some(ErrorReturn)
    /\ pc' = "finally"
    /\ UNCHANGED << job, use_gpu, work_dir, disk, store_vars, media_vars, loudness,
                    ladder_vars, upload_i, keys, error_msg, exc >>

\* Cleanup as the last statement of the try block instead of a finally clause:
\* it runs only when no exception was caught.
CleanupOnSuccessOnly ==
    /\ pc = "finally"
    /\ IF error_msg = None
       THEN /\ work_dir' = "removed"
            /\ disk' = {}
            /\ trace' = Append(trace, Call("rmtree", "cleanup", [ignore_errors |-> TRUE], "ok", FALSE))
       ELSE UNCHANGED << work_dir, disk, trace >>
    /\ pc' = "returned"
    /\ UNCHANGED << job, use_gpu, store_vars, media_vars, loudness,
                    ladder_vars, upload_i, keys, error_msg, exit_vars >>

\* Lines 833-835: finally: shutil.rmtree(work_dir, ignore_errors=True); then the
\* pending return takes effect.
Cleanup ==
    /\ pc = "finally"
    /\ work_dir' = "removed"
    /\ disk' = {}
    /\ trace' = Append(trace, Call("rmtree", "cleanup", [ignore_errors |-> TRUE], "ok", FALSE))
    /\ pc' = "returned"
    /\ UNCHANGED << job, use_gpu, store_vars, media_vars, loudness,
                    ladder_vars, upload_i, keys, error_msg, exit_vars >>

\* ------------------------------------------------------------- specification

Next ==
    \/ ReadInput
    \/ CreateClients
    \/ CheckGpu
    \/ MakeWorkDir
    \/ Download
    \/ Probe
    \/ CreateMezzanine
    \/ UploadMezzanine
    \/ AnalyzeLoudness
    \/ TranscodeVariant
    \/ WriteMaster
    \/ UploadHlsFile
    \/ SetHlsKeys
    \/ CreatePreview
    \/ ExtractThumbnail
    \/ UploadThumbnail
    \/ WaveformJson
    \/ WaveformPng
    \/ UploadWaveformJson
    \/ UploadWaveformPng
    \/ NotifyCompleted
    \/ ExceptHandler
    \/ Cleanup

Spec == Init /\ [][Next]_vars

\* upload_directory on its own (lines 143-164), for directories of any content:
\* handler is at line 733 with a directory that holds some of the files of one
\* rendition, the master playlist and files of other kinds.
DirectoryFiles ==
    { MasterFile } \cup HlsOutputs("720p", "index.m3u8") \cup Range(StrayFiles)

InitUploadDirectory ==
    /\ job \in { j \in Jobs : j.missing = "none" }
    /\ pc = "upload_hls"
    /\ use_gpu = FALSE
    /\ work_dir = "exists"
    /\ disk \in SUBSET DirectoryFiles
    /\ r2 = {}
    /\ b2 = {}
    /\ duration = Some(0)
    /\ width = None
    /\ height = None
    /\ loudness = Some(LoudnessDefaults)
    /\ ladder_i = Len(Ladder(job.type)) + 1
    /\ ready_variants = << >>
    /\ master = Some(<< >>)
    /\ upload_i = 1
    /\ keys = NoKeys
    /\ error_msg = None
    /\ posts = << >>
    /\ ret = None
    /\ exc = None
    /\ trace = << >>

NextUploadDirectory == UploadHlsFile \/ SetHlsKeys

SpecUploadDirectory == InitUploadDirectory /\ [][NextUploadDirectory]_vars

\* handler has returned or raised.
Finished == pc \in {"returned", "raised"}

\* ------------------------------------------------------------ observations

\* The calls of the pipeline proper: everything but the webhook POSTs and the
\* final rmtree.
IsStageCall(c) == c.op \notin {"post", "rmtree"}

\* A call of the try block raised (a stage failed).
StageRaised == \E i \in DOMAIN trace : IsStageCall(trace[i]) /\ trace[i].raised

\* The except clause caught the exception of a stage (not of the completed POST).
StageFailureCaught == error_msg # None /\ error_msg[1].stage # "webhook"

\* mkdtemp returned a directory.
WorkDirAcquired == \E i \in DOMAIN trace : trace[i].op = "mkdtemp" /\ ~trace[i].raised

\* -------------------------------------------------------------------- claims

\* C1: whenever handler has finished (returned or raised), wherever a failure
\* occurred, at least one webhook POST has been attempted.  (The code refutes
\* this: exceptions of lines 663-689 leave handler before the try statement.)
C1_WebhookBeforeFinish == Finished => Len(posts) >= 1

\* C2: once a stage between download and the last upload has raised, no further
\* stage call is made (only the webhook POST and the cleanup follow the raising
\* call), no completed notification is sent, and exactly one notification, with
\* status failed, is attempted by the time handler returns.
C2_StageFailureSkipsRest ==
    StageFailureCaught =>
        /\ \A i, j \in DOMAIN trace :
             (i < j /\ IsStageCall(trace[i]) /\ trace[i].raised) => ~IsStageCall(trace[j])
        /\ \A i \in DOMAIN posts : posts[i].data.status = "failed"
        /\ Len(posts) <= 1
        /\ pc \in {"finally", "returned"} => Len(posts) = 1
        /\ pc \in {"except", "finally", "returned"}

\* C2 witness: handler has returned after the upload of the rendition tree
\* raised part-way (some files are already in the delivery store).
C2_Witness ==
    /\ pc = "returned"
    /\ error_msg = Some(Msg("hls_upload", "error"))
    /\ r2 # {}
    /\ Len(posts) = 1

\* C3: on a finished run in which no stage call raised and the first POST was
\* answered 2xx, exactly one notification was attempted, with status completed,
\* to the job's webhookUrl, carrying the signature of its payload under the job's
\* secret, and handler returned {status: success, mediaId: the job's}.
C3_SuccessPath ==
    (pc = "returned" /\ ~StageRaised /\ Len(posts) >= 1 /\ posts[1].outcome = "2xx") =>
        /\ Len(posts) = 1
        /\ posts[1].data.status = "completed"
        /\ posts[1].url = job.webhookUrl
        /\ posts[1].headers.XRunpodSignature =
              sign_payload(json_dumps(posts[1].data), job.webhookSecret)
        /\ ret = Some([status |-> "success", mediaId |-> job.mediaId])
        /\ exc = None

\* C3 witness: a video job that went through every stage and whose completed
\* notification was answered 2xx.
C3_Witness ==
    /\ pc = "returned"
    /\ job.type = "video"
    /\ ~StageRaised
    /\ keys.thumbnail # None
    /\ Len(posts) = 1
    /\ posts[1].outcome = "2xx"

\* C4: the notifications of one job never include both a completed and a failed
\* payload.  (The code refutes this: a failing completed POST is caught by the
\* except clause, which then sends a failed payload.)
C4_ConsistentReport ==
    ~ \E i, j \in DOMAIN posts :
        posts[i].data.status = "completed" /\ posts[j].data.status = "failed"

\* C5: when the delivery of the failed notification fails (exception or a
\* response that is not 2xx), handler does not raise and returns status error
\* with the message of the failure the except clause caught, which for a stage
\* failure is the stage's message and not the webhook's.
C5_FailedWebhookSwallowed ==
    \A i \in DOMAIN posts :
        (posts[i].data.status = "failed" /\ posts[i].outcome # "2xx") =>
            /\ exc = None
            /\ pc \in {"finally", "returned"}
            /\ ret = Some([status |-> "error", error |-> error_msg[1]])
            /\ posts[i].data.error = Some(Cap(error_msg[1]))
            /\ StageFailureCaught => ret[1].error.stage # "webhook"

\* C5 witness: the probe failed, the failed notification timed out, and handler
\* has returned.
C5_Witness ==
    /\ pc = "returned"
    /\ error_msg = Some(Msg("probe", "nonzero"))
    /\ Len(posts) = 1
    /\ posts[1].data.status = "failed"
    /\ posts[1].outcome = "timeout"

\* C6: handler's return status is decided by the stages alone, whatever the
\* webhook POSTs do: success when no stage raised, error when one did.  (The code
\* refutes this: a failing completed POST turns the return into error.)
C6_ReturnIgnoresWebhook ==
    pc = "returned" =>
        /\ ret # None
        /\ (ret[1].status = "success") <=> ~StageRaised
        /\ (ret[1].status = "error") <=> StageRaised

\* C7: once mkdtemp has returned the working directory, by the time handler has
\* finished the directory has been removed, on every exit path, and the rmtree
\* call comes after every webhook POST.
C7_WorkDirReleased ==
    /\ (Finished /\ WorkDirAcquired) =>
          /\ work_dir = "removed"
          /\ disk = {}
          /\ \E i \in DOMAIN trace :
               /\ trace[i].op = "rmtree"
               /\ \A j \in DOMAIN trace : trace[j].op = "post" => j < i
    /\ work_dir = "removed" => pc = "returned"

\* C7 witness: the completed POST failed, the failed POST failed too, and
\* handler has returned with the directory removed.
C7_Witness ==
    /\ pc = "returned"
    /\ Len(posts) = 2
    /\ PostRaises(posts[1].outcome)
    /\ PostRaises(posts[2].outcome)
    /\ work_dir = "removed"

\* C8: every non-null artifact key of a completed payload names an object this
\* job has uploaded: the mezzanine key in the archival store, the others in the
\* delivery store.  (The code refutes this: the preview is generated after the
\* upload of hls_dir, and its key is set all the same.)
C8_KeysNameUploadedObjects ==
    \A i \in DOMAIN posts :
        posts[i].data.status = "completed" =>
            LET d == posts[i].data IN
            /\ d.mezzanineKey # None => d.mezzanineKey[1] \in b2
            /\ \A k \in { d.hlsMasterPlaylistKey, d.hlsPreviewKey, d.thumbnailKey,
                          d.waveformKey, d.waveformImageKey } :
                 k # None => k[1] \in r2

\* C9: for a video job whose ladder stage has completed (the master playlist is
\* written) with a source height H >= 1, a ladder entry's name is in
\* ready_variants iff its target height is <= H, and a completed payload
\* carries that list.
C9_ReadyVariantsIffFits ==
    (job.type = "video" /\ master # None /\ height # None /\ height[1] >= 1) =>
        /\ \A i \in DOMAIN HLS_VARIANTS :
             (HLS_VARIANTS[i].name \in Range(ready_variants))
                 <=> (HLS_VARIANTS[i].height <= height[1])
        /\ \A i \in DOMAIN posts :
             posts[i].data.status = "completed" => posts[i].data.readyVariants = ready_variants

\* C9 witness: a 720-line source has been through the ladder: 720p, 480p and
\* 360p are ready, 1080p is not.
C9_Witness ==
    /\ job.type = "video"
    /\ master # None
    /\ height = Some(720)
    /\ ready_variants = << "720p", "480p", "360p" >>

\* C10: once a rendition encode has failed, no later rendition is encoded, the
\* master playlist is not written, nothing has been uploaded to the delivery
\* store, and the job's only notification is a failed one with an empty
\* readyVariants.
C10_NoPartialLadder ==
    (\E i \in DOMAIN trace : trace[i].stage = "ladder" /\ trace[i].outcome # "ok") =>
        /\ error_msg # None /\ error_msg[1].stage = "ladder"
        /\ master = None
        /\ MasterFile \notin disk
        /\ r2 = {}
        /\ \A i, j \in DOMAIN trace :
             (i < j /\ trace[i].stage = "ladder" /\ trace[i].outcome # "ok") =>
                 trace[j].op \in {"post", "rmtree"}
        /\ \A i \in DOMAIN posts :
             posts[i].data.status = "failed" /\ posts[i].data.readyVariants = << >>
        /\ pc = "returned" => Len(posts) = 1

\* C10 witness: the second rendition failed after the first had been encoded,
\* and handler has returned.
C10_Witness ==
    /\ pc = "returned"
    /\ error_msg # None
    /\ error_msg[1].stage = "ladder"
    /\ Len(ready_variants) >= 1
    /\ Len(posts) = 1

\* C11: the loudness stage never fails the job: whatever the measurement run
\* gives (non-zero exit, timeout, no block, fields missing or not numbers), no
\* exception of it reaches the handler, analyze_loudness has returned parameters
\* and the handler goes on to the ladder.  (The code refutes this: subprocess.run
\* is outside analyze_loudness's try, so its TimeoutExpired is not caught there,
\* and neither is the TypeError float() raises for a null field.)
C11_LoudnessNeverFails ==
    \A i \in DOMAIN trace :
        trace[i].stage = "loudness" =>
            /\ ~trace[i].raised
            /\ loudness # None
            /\ ~(error_msg # None /\ error_msg[1].stage = "loudness")

\* The stages whose tool runs with check=True and a timeout.
TimedStages == {"probe", "mezzanine", "ladder", "preview", "thumbnail", "waveform"}

\* C12: in the probe, mezzanine, ladder, preview, thumbnail and waveform stages
\* a timeout of the tool ends the job exactly as a non-zero exit does: the
\* handler catches it (nothing propagates), the caught message names the stage
\* and the kind of failure, exactly one notification is attempted and it is a
\* failed one, and the handler returns the error status with that message.
C12_TimeoutLikeNonZero ==
    \A i \in DOMAIN trace :
        (trace[i].stage \in TimedStages /\ trace[i].outcome \in {"nonzero", "timeout"}) =>
            /\ trace[i].raised
            /\ exc = None
            /\ pc \in {"except", "finally", "returned"}
            /\ error_msg = Some(Msg(trace[i].stage, trace[i].outcome))
            /\ \A j \in DOMAIN trace : trace[j].stage \in TimedStages => j <= i
            /\ pc = "except" => posts = << >>
            /\ pc \in {"finally", "returned"} =>
                  /\ Len(posts) = 1
                  /\ posts[1].data.status = "failed"
                  /\ ret = Some([status |-> "error", error |-> error_msg[1]])

C12_Witness ==
    /\ pc = "returned"
    /\ \E i \in DOMAIN trace : trace[i].stage = "thumbnail" /\ trace[i].outcome = "timeout"
    /\ error_msg = Some(Msg("thumbnail", "timeout"))
    /\ Len(posts) = 1

\* C13: every failed payload has the six key fields null, durationSeconds, width
\* and height null and readyVariants empty, however far the job had got: also
\* after the probe has measured the media, renditions have been encoded and
\* objects have been uploaded.
C13_FailedPayloadIsBlank ==
    \A i \in DOMAIN posts :
        posts[i].data.status = "failed" =>
            /\ posts[i].data.hlsMasterPlaylistKey = None
            /\ posts[i].data.hlsPreviewKey = None
            /\ posts[i].data.thumbnailKey = None
            /\ posts[i].data.waveformKey = None
            /\ posts[i].data.waveformImageKey = None
            /\ posts[i].data.mezzanineKey = None
            /\ posts[i].data.durationSeconds = None
            /\ posts[i].data.width = None
            /\ posts[i].data.height = None
            /\ posts[i].data.readyVariants = << >>

C13_Witness ==
    /\ posts # << >>
    /\ posts[Len(posts)].data.status = "failed"
    /\ duration # None /\ height # None
    /\ ready_variants # << >>
    /\ keys.hls_master # None /\ keys.mezzanine # None
    /\ r2 # {} /\ b2 # {}

\* C14: the error field of every failed payload is at most 2000 bytes when
\* encoded, whatever the caught message's length and characters.  (The code
\* refutes this: error_msg[:2000] keeps 2000 characters, and a character that
\* is not ASCII takes two to four bytes in UTF-8, and six or twelve in the
\* JSON document.)
C14_ErrorAtMost2000Bytes ==
    \A i \in DOMAIN posts :
        posts[i].data.status = "failed" =>
            ByteLen(EncodeText(posts[i].data.error[1].text, "utf-8")) <= ERROR_CAP

\* C15: the X-Runpod-Signature header of every POST is the HMAC-SHA256, under
\* the job's webhookSecret, of exactly the bytes delivered as the POST body: the
\* body is the serialisation of the result, and its bytes on the wire, in
\* either encoding an HTTP stack gives a str body, are the bytes that were
\* signed.
C15_SignatureOverBodyBytes ==
    \A i \in DOMAIN posts :
        /\ posts[i].body = json_dumps(posts[i].data)
        /\ \A encoding \in WireEncodings :
             posts[i].headers.XRunpodSignature =
                [hmac_sha256_key |-> job.webhookSecret,
                 msg |-> EncodePayload(posts[i].body, encoding)]

\* C15 witness: a failed notification whose error text is not ASCII.
C15_Witness ==
    /\ posts # << >>
    /\ posts[1].data.status = "failed"
    /\ \E k \in DOMAIN posts[1].data.error[1].text :
         posts[1].data.error[1].text[k].cls = "latin1"
    /\ \A k \in DOMAIN posts[1].body.error[1].text :
         posts[1].body.error[1].text[k].cls = "ascii"

\* C16: every completed notification of an audio job has mezzanineKey,
\* thumbnailKey and hlsPreviewKey null, waveformKey and waveformImageKey set,
\* width and height null and readyVariants = [128k, 64k], and the waveform tool
\* was invoked.  (The code refutes the width/height part: get_media_info reports
\* the first video stream's size whatever the job's type, and an audio file may
\* carry one, its cover art.)
C16_AudioCompletedPayload ==
    \A i \in DOMAIN posts :
        (job.type = "audio" /\ posts[i].data.status = "completed") =>
            /\ posts[i].data.mezzanineKey = None
            /\ posts[i].data.thumbnailKey = None
            /\ posts[i].data.hlsPreviewKey = None
            /\ posts[i].data.waveformKey # None
            /\ posts[i].data.waveformImageKey # None
            /\ posts[i].data.width = None
            /\ posts[i].data.height = None
            /\ posts[i].data.readyVariants = << "128k", "64k" >>
            /\ \E k \in DOMAIN trace : trace[k].stage = "waveform"

\* A call of the stage is in the trace.
StageRan(stage) == \E i \in DOMAIN trace : trace[i].stage = stage

\* The auxiliary-artifact stage (lines 739-781) is behind the job: the completed
\* result is about to be built, or has been sent.
AuxiliaryPassed ==
    \/ pc = "notify"
    \/ (posts # << >> /\ posts[1].data.status = "completed")

\* C17 as stated, for the two declared media types: once the auxiliary-artifact
\* stage is passed exactly one of the thumbnail and the waveform stage has run,
\* never both, and no payload has both thumbnailKey and waveformKey.  (Refuted:
\* a video job whose probed duration is 0 or less runs neither.)
C17_ExactlyOneAuxiliary ==
    /\ ~(StageRan("thumbnail") /\ StageRan("waveform"))
    /\ (AuxiliaryPassed /\ job.type \in {"video", "audio"}) =>
          (StageRan("thumbnail") \/ StageRan("waveform"))
    /\ \A i \in DOMAIN posts :
          ~(posts[i].data.thumbnailKey # None /\ posts[i].data.waveformKey # None)

\* C17, amended: at most one of the thumbnail and the waveform stage runs in a
\* job, never both: the waveform stage if and only if the type is audio, the
\* thumbnail stage if and only if the type is video and the probed duration is
\* above 0; in no payload are thumbnailKey and waveformKey both set.
C17_AtMostOneAuxiliary ==
    /\ ~(StageRan("thumbnail") /\ StageRan("waveform"))
    /\ StageRan("thumbnail") => (job.type = "video" /\ duration[1] > 0)
    /\ StageRan("waveform") => job.type = "audio"
    /\ AuxiliaryPassed =>
          /\ StageRan("thumbnail") <=> (job.type = "video" /\ duration[1] > 0)
          /\ StageRan("waveform") <=> job.type = "audio"
    /\ ~(keys.thumbnail # None /\ keys.waveform # None)
    /\ \A i \in DOMAIN posts :
          ~(posts[i].data.thumbnailKey # None /\ posts[i].data.waveformKey # None)

\* C17 witness: a video job of duration 0 has sent its completed notification
\* with neither stage run.
C17_Witness ==
    /\ job.type = "video"
    /\ duration = Some(0)
    /\ posts # << >>
    /\ posts[1].data.status = "completed"
    /\ ~StageRan("thumbnail") /\ ~StageRan("waveform")

\* C18: a video job of probed duration d > 0 invokes the preview encode with
\* start max(0, floor(d/10)) and clip duration min(30, d - start); with d <= 0
\* neither the preview nor the thumbnail tool is invoked.
C18_PreviewWindow ==
    /\ \A i \in DOMAIN trace :
          trace[i].stage = "preview" =>
              /\ job.type = "video"
              /\ duration[1] > 0
              /\ trace[i].args.ss = (IF duration[1] \div 10 >= 0 THEN duration[1] \div 10 ELSE 0)
              /\ trace[i].args.t = (IF duration[1] - trace[i].args.ss <= 30
                                    THEN duration[1] - trace[i].args.ss ELSE 30)
    /\ (job.type = "video" /\ keys.hls_master # None /\ pc # "preview" /\ duration[1] > 0) =>
          StageRan("preview")
    /\ (duration # None /\ duration[1] <= 0) =>
          (~StageRan("preview") /\ ~StageRan("thumbnail"))

\* C18 witness: a 10 s video, clip from 1 s for 9 s.
C18_Witness ==
    /\ duration = Some(10)
    /\ \E i \in DOMAIN trace :
          trace[i].stage = "preview" /\ trace[i].args.ss = 1 /\ trace[i].args.t = 9

\* C19: whenever the thumbnail tool is invoked, the frame's timestamp is
\* max(1, floor(d/10)) for the probed duration d.
C19_ThumbnailTimestamp ==
    \A i \in DOMAIN trace :
        trace[i].stage = "thumbnail" =>
            trace[i].args.ss = (IF duration[1] \div 10 >= 1 THEN duration[1] \div 10 ELSE 1)

\* C19 witness: d = 100 gives 10 (and the run of d = 5 gives 1).
C19_Witness ==
    /\ duration = Some(100)
    /\ \E i \in DOMAIN trace : trace[i].stage = "thumbnail" /\ trace[i].args.ss = 10

\* The stages that put an object into a store.
UploadStages == {"mezzanine_upload", "hls_upload", "thumbnail_upload", "waveform_upload"}

\* C20: the mezzanine encode and the upload to the archival store happen if
\* and only if the job's type is video (they have happened once a video job is
\* at the loudness stage); a job of another type leaves the archival store as
\* it was, and nothing is ever put there but the mezzanine, under
\* {creatorId}/mezzanine/{mediaId}/.
C20_ArchiveIffVideo ==
    /\ (StageRan("mezzanine") \/ StageRan("mezzanine_upload")) => job.type = "video"
    /\ (job.type = "video" /\ (pc = "loudness" \/ StageRan("loudness"))) =>
          /\ \E i \in DOMAIN trace : trace[i].stage = "mezzanine" /\ trace[i].outcome = "ok"
          /\ \E i \in DOMAIN trace : trace[i].stage = "mezzanine_upload" /\ trace[i].outcome = "ok"
          /\ b2 = { job.creatorId \o "/mezzanine/" \o job.mediaId \o "/mezzanine.mp4" }
    /\ job.type # "video" => b2 = {}
    /\ b2 \subseteq { job.creatorId \o "/mezzanine/" \o job.mediaId \o "/mezzanine.mp4" }
    /\ \A i \in DOMAIN trace :
          (trace[i].stage \in UploadStages /\ trace[i].args.store = "b2") =>
              /\ trace[i].stage = "mezzanine_upload"
              /\ trace[i].args.key = job.creatorId \o "/mezzanine/" \o job.mediaId \o "/mezzanine.mp4"

\* C20 witness: an audio job at its end with the archival store empty and the
\* delivery store not.
C20_Witness ==
    /\ job.type = "audio"
    /\ pc = "returned"
    /\ posts # << >> /\ posts[1].data.status = "completed"
    /\ b2 = {} /\ r2 # {}

\* C21: capability detection never raises: whatever the encoder listing's run
\* gave, nothing propagates from it and handler goes on; the flag is false
\* after any exception of the run, and true only when the listing names the
\* hardware codec.
C21_GpuCheckNeverRaises ==
    \A i \in DOMAIN trace :
        trace[i].stage = "gpu_check" =>
            /\ ~trace[i].raised
            /\ pc # "gpu"
            /\ ~(exc # None /\ exc[1].stage = "gpu_check")
            /\ trace[i].outcome = "error" => ~use_gpu
            /\ use_gpu <=> trace[i].outcome = "nvenc"

\* C21 witness: the listing's run raised and the job went on to its encodes
\* with the software codec.
C21_Witness ==
    /\ \E i \in DOMAIN trace : trace[i].stage = "gpu_check" /\ trace[i].outcome = "error"
    /\ ~use_gpu
    /\ StageRan("mezzanine")

\* The video encodes of the trace: mezzanine, ladder renditions of a video job,
\* preview.
IsVideoEncode(c) ==
    \/ c.stage \in {"mezzanine", "preview"}
    \/ (c.stage = "ladder" /\ job.type = "video")

\* C22: the capability flag is computed exactly once per job (one encoder
\* listing, before any encode) and every video encode of the job, mezzanine,
\* ladder renditions and preview alike, runs with the codec that one detection
\* chose: the hardware codec if the listing named it, the software codec
\* otherwise.
C22_OneCapabilityChoice ==
    /\ \A i \in DOMAIN trace :
          trace[i].stage = "gpu_check" =>
              \A j \in DOMAIN trace :
                  /\ trace[j].stage = "gpu_check" => i = j
                  /\ IsVideoEncode(trace[j]) =>
                        /\ i < j
                        /\ trace[j].args.codec =
                              (IF trace[i].outcome = "nvenc" THEN "h264_nvenc" ELSE "libx264")
    /\ \A j \in DOMAIN trace :
          IsVideoEncode(trace[j]) => StageRan("gpu_check")

\* C22 witness: mezzanine, a ladder rendition and the preview have all been
\* encoded with the hardware codec.
C22_Witness ==
    /\ use_gpu
    /\ job.type = "video"
    /\ ready_variants # << >>
    /\ \E i \in DOMAIN trace : trace[i].stage = "mezzanine" /\ trace[i].args.codec = "h264_nvenc"
    /\ \E i \in DOMAIN trace : trace[i].stage = "preview" /\ trace[i].args.codec = "h264_nvenc"

\* C23: in every run of handler at most two webhook POSTs are attempted in
\* all, and at most one of them carries status failed.
C23_AtMostTwoPosts ==
    /\ Len(posts) <= 2
    /\ \A i, j \in DOMAIN posts :
          (posts[i].data.status = "failed" /\ posts[j].data.status = "failed") => i = j

\* C23 witness: handler has returned after two attempts, the completed one and
\* the failed one, both of which raised.
C23_Witness ==
    /\ pc = "returned"
    /\ Len(posts) = 2
    /\ posts[1].data.status = "completed" /\ PostRaises(posts[1].outcome)
    /\ posts[2].data.status = "failed" /\ posts[2].outcome = "5xx"

\* C24: when the download fails with message M, nothing is probed, encoded or
\* uploaded; handler returns status error with M as its error, and the single
\* webhook attempted has status failed and, for M of at most 2000 characters,
\* M as its error.
C24_DownloadFailure ==
    \A i \in DOMAIN trace :
        (trace[i].stage = "download" /\ trace[i].raised) =>
            /\ i = Len(trace) \/ \A j \in (i + 1) .. Len(trace) : trace[j].op \in {"post", "rmtree"}
            /\ r2 = {} /\ b2 = {}
            /\ error_msg # None /\ error_msg[1].stage = "download"
            /\ exc = None
            /\ pc \in {"except", "finally", "returned"}
            /\ pc \in {"finally", "returned"} =>
                  /\ Len(posts) = 1
                  /\ posts[1].data.status = "failed"
                  /\ TextLen(error_msg[1].text) <= 2000 => posts[1].data.error = error_msg
                  /\ ret = Some([status |-> "error", error |-> error_msg[1]])

\* C24 witness: a download that failed with a message of exactly 2000
\* characters, reported whole.
C24_Witness ==
    /\ pc = "returned"
    /\ error_msg # None /\ error_msg[1].stage = "download"
    /\ TextLen(error_msg[1].text) = 2000
    /\ Len(posts) = 1 /\ posts[1].data.error = error_msg

CallId(c) ==
    CASE c.stage = "ladder" -> << c.stage, c.args.variant >>
      [] c.stage = "waveform" -> << c.stage, c.args.output >>
      [] c.stage \in UploadStages -> << c.stage, c.args.key >>
      [] OTHER -> << c.stage, "" >>

\* The positions of the trace that hold a pipeline call.
StageCalls == { i \in DOMAIN trace : IsStageCall(trace[i]) }

\* C26: no stage is retried: the download, the probe, the mezzanine encode,
\* the loudness pass, each ladder rendition's encode, the preview encode, the
\* thumbnail extraction, each of the two waveform invocations and each file's
\* upload are made at most once in a job, also after one of them has failed.
C26_NoRetry ==
    Cardinality({ CallId(trace[i]) : i \in StageCalls }) = Cardinality(StageCalls)

\* C26 witness: a rendition's encode failed after others had been made, and
\* handler has returned.
C26_Witness ==
    /\ pc = "returned"
    /\ ready_variants # << >>
    /\ \E i \in DOMAIN trace : trace[i].stage = "ladder" /\ trace[i].raised

\* C27: a job whose payload has the identity and webhook fields only (the
\* storage fields come from the environment) never raises for want of a
\* storage field: handler gets as far as the pipeline and returns success, or
\* error with one failed notification.  (The code refutes this: it reads the
\* storage fields from the payload before its try statement.)
C27_EnvCredentialsJobRuns ==
    job.missing = "storage" =>
        /\ exc = None
        /\ pc # "raised"
        /\ pc = "returned" =>
              \/ ret = Some([status |-> "success", mediaId |-> job.mediaId])
              \/ (ret # None /\ ret[1].status = "error" /\ Len(posts) = 1
                  /\ posts[1].data.status = "failed")

\* C28: in every completed notification hlsPreviewKey is set exactly when the
\* preview encode ran in the job (a video job of probed duration above 0); a
\* video job of duration 0 or less, whose preview is skipped, reports it null.
\* (The code refutes this: the key is set for every video job, whatever the
\* duration.)
C28_PreviewKeyIffPreviewRan ==
    \A i \in DOMAIN posts :
        posts[i].data.status = "completed" =>
            /\ posts[i].data.hlsPreviewKey # None <=> StageRan("preview")
            /\ (job.type = "video" /\ duration[1] <= 0) => posts[i].data.hlsPreviewKey = None

\* C29: no upscaling in any run of a video job: no ladder rendition is encoded
\* whose target height is above the source height; with a source height of 0
\* or none at all (no video stream) no video rendition is encoded.  (The code
\* refutes this: `if source_height and ...` skips nothing when the height is 0
\* or None, and all four renditions are encoded.)
C29_NoUpscaling ==
    job.type = "video" =>
        \A i \in DOMAIN trace :
            trace[i].stage = "ladder" =>
                /\ height # None
                /\ trace[i].args.scale <= height[1]

\* C30: a video source of height 1..359 and duration above 0: all four ladder
\* entries are skipped (no rendition is encoded), the ladder stage does not
\* fail and writes a master playlist with no entry, a completed notification
\* carries readyVariants = [] and a master playlist key; with a duration of 5
\* the preview starts at 0 and lasts 5.
C30_SourceBelowLadder ==
    (job.type = "video" /\ height # None /\ height[1] >= 1 /\ height[1] <= 359
       /\ duration[1] > 0) =>
        /\ ~StageRan("ladder")
        /\ ready_variants = << >>
        /\ ~(error_msg # None /\ error_msg[1].stage = "ladder")
        /\ (StageRan("hls_upload") \/ StageRan("preview")) => master = Some(<< >>)
        /\ \A i \in DOMAIN posts :
              posts[i].data.status = "completed" =>
                  /\ posts[i].data.readyVariants = << >>
                  /\ posts[i].data.hlsMasterPlaylistKey # None
                  /\ posts[i].data.hlsMasterPlaylistKey[1] \in r2
        /\ \A i \in DOMAIN trace :
              (trace[i].stage = "preview" /\ duration[1] = 5) =>
                  (trace[i].args.ss = 0 /\ trace[i].args.t = 5)

\* C30 witness: the spec's scenario, 5 s at 240 lines, reported completed.
C30_Witness ==
    /\ job.type = "video"
    /\ height = Some(240) /\ duration = Some(5)
    /\ master = Some(<< >>)
    /\ \E i \in DOMAIN trace : trace[i].stage = "preview" /\ trace[i].args.t = 5
    /\ posts # << >> /\ posts[1].data.status = "completed" /\ posts[1].outcome = "2xx"

\* The declared ladder's names, in declared order, for the job's type.
DeclaredNames ==
    IF job.type = "video" THEN << "1080p", "720p", "480p", "360p" >> ELSE << "128k", "64k" >>

\* Where a name stands in the declared ladder (0: nowhere).
DeclaredIndex(name) ==
    IF \E i \in DOMAIN DeclaredNames : DeclaredNames[i] = name
    THEN CHOOSE i \in DOMAIN DeclaredNames : DeclaredNames[i] = name
    ELSE 0

\* C31: readyVariants is a subsequence of the declared ladder, in declared
\* order and without duplicates; the master playlist, once written, lists
\* exactly the renditions of readyVariants in that order, each as
\* <name>/index.m3u8, and it is written only when every rendition encode of the
\* job has been made and has succeeded.
C31_ReadyVariantsInLadderOrder ==
    /\ \A k \in DOMAIN ready_variants :
          /\ DeclaredIndex(ready_variants[k]) >= 1
          /\ k < Len(ready_variants) =>
                DeclaredIndex(ready_variants[k]) < DeclaredIndex(ready_variants[k + 1])
    /\ master # None =>
          /\ Len(master[1]) = Len(ready_variants)
          /\ \A k \in DOMAIN ready_variants :
                master[1][k].uri = ready_variants[k] \o "/index.m3u8"
          /\ ladder_i > Len(DeclaredNames)
          /\ \A i \in DOMAIN trace :
                trace[i].stage = "ladder" =>
                    /\ trace[i].outcome = "ok"
                    /\ trace[i].args.variant \in Range(ready_variants)
          /\ Cardinality({ i \in DOMAIN trace : trace[i].stage = "ladder" }) = Len(ready_variants)

\* C31 witness: a 720-line source: the master playlist lists 720p, 480p, 360p.
C31_Witness ==
    /\ ready_variants = << "720p", "480p", "360p" >>
    /\ master # None
    /\ master[1][1].uri = "720p/index.m3u8"
    /\ master[1][3].uri = "360p/index.m3u8"

\* The measurement a normalization filter is given (loudnorm's measured_I,
\* measured_TP, measured_LRA options), read off the -af argument of an encode:
\* the one filter string the code has (lines 358, 394, 451) names the targets
\* only, and an encode without -af has no filter at all.
FilterMeasurement(af) ==
    IF af = "loudnorm=I=-16:TP=-1.5:LRA=11" THEN None
    ELSE IF af = "" THEN None
    ELSE Some(af)

\* C32: the parameters analyze_loudness returned for the job (measured, or
\* the defaults) are the parameters of the normalization filter of every
\* ladder rendition encode and of the preview encode.  (The code refutes this:
\* the value is printed and never used; the ladder's filter is a constant and
\* the preview has no audio filter.)
C32_MeasuredLoudnessApplied ==
    \A i \in DOMAIN trace :
        trace[i].stage \in {"ladder", "preview"} =>
            /\ loudness # None
            /\ FilterMeasurement(trace[i].args.af) = loudness

\* The content type C33 gives an extension.
DeclaredContentType(ext) ==
    CASE ext = ".m3u8" -> Some("application/vnd.apple.mpegurl")
      [] ext = ".ts" -> Some("video/MP2T")
      [] ext = ".json" -> Some("application/json")
      [] ext = ".png" -> Some("image/png")
      [] ext \in {".jpg", ".jpeg"} -> Some("image/jpeg")
      [] OTHER -> None

\* The uploads upload_directory has made.
DirectoryUploads == { i \in DOMAIN trace : trace[i].stage = "hls_upload" }

\* C33: upload_directory uploads every file beneath the directory exactly
\* once, under key_prefix + its relative path, with the content type its
\* extension has (.m3u8, .ts, .json, .png, .jpg/.jpeg) and none for any other
\* extension; the first upload that fails ends the walk and the job.
C33_UploadDirectory ==
    /\ \A i \in DirectoryUploads :
          /\ \E f \in disk :
                /\ trace[i].args.key = job.creatorId \o "/hls/" \o job.mediaId \o "/" \o f.rel
                /\ trace[i].args.content_type = DeclaredContentType(f.ext)
          /\ trace[i].outcome # "ok" =>
                /\ i = Len(trace)
                /\ pc = "except"
                /\ error_msg # None /\ error_msg[1].stage = "hls_upload"
                /\ trace[i].args.key \notin r2
    /\ Cardinality({ trace[i].args.key : i \in DirectoryUploads }) = Cardinality(DirectoryUploads)
    /\ pc = "preview" =>
          /\ r2 = { job.creatorId \o "/hls/" \o job.mediaId \o "/" \o f.rel : f \in disk }
          /\ Cardinality(DirectoryUploads) = Cardinality(disk)

\* C33 witness: a directory with a playlist, a segment, an image, a text file
\* and a file without extension has been uploaded whole; the text file went
\* without a content type.
C33_Witness ==
    /\ pc = "preview"
    /\ File("hls", "notes.txt", ".txt") \in disk
    /\ File("hls", "frames/LICENSE", "") \in disk
    /\ File("hls", "frames/first.jpeg", ".jpeg") \in disk
    /\ File("hls", "720p/index.m3u8", ".m3u8") \in disk
    /\ \E i \in DirectoryUploads :
          /\ trace[i].args.key = job.creatorId \o "/hls/" \o job.mediaId \o "/notes.txt"
          /\ trace[i].args.content_type = None

\* C34: whenever the preview encode runs (probed duration d >= 1) the clip it
\* asks for lies inside the source: 0 <= start, 1 <= length <= 30 and
\* start + length <= d.
C34_PreviewInsideSource ==
    \A i \in DOMAIN trace :
        trace[i].stage = "preview" =>
            /\ duration[1] >= 1
            /\ 0 <= trace[i].args.ss
            /\ 1 <= trace[i].args.t
            /\ trace[i].args.t <= 30
            /\ trace[i].args.ss + trace[i].args.t <= duration[1]

\* C34 witness: a source of 1 s (the clip is all of it) has had its preview
\* encoded.
C34_Witness ==
    /\ duration = Some(1)
    /\ \E i \in DOMAIN trace :
          /\ trace[i].stage = "preview" /\ trace[i].outcome = "ok"
          /\ trace[i].args.ss = 0 /\ trace[i].args.t = 1

\* C35: whenever the thumbnail extraction runs (probed duration d >= 1) its
\* timestamp is below d: the seek never lands at or past the source's end.
\* (The code refutes this for d = 1: max(1, int(1 * 0.1)) = 1.)
C35_ThumbnailBeforeEnd ==
    \A i \in DOMAIN trace :
        trace[i].stage = "thumbnail" =>
            /\ duration[1] >= 1
            /\ trace[i].args.ss < duration[1]

\* C36: a job whose type is neither video nor audio is never reported
\* completed: no encode runs for it and every notification of it has status
\* failed.  (The code refutes this: the type is never validated, and every
\* type but video takes the audio ladder's else branch.)
C36_UnknownTypeRejected ==
    job.type \notin {"video", "audio"} =>
        /\ \A i \in DOMAIN trace : trace[i].stage \notin {"mezzanine", "ladder", "preview"}
        /\ \A i \in DOMAIN posts : posts[i].data.status = "failed"
        /\ pc \in {"finally", "returned"} => posts # << >>

\* C37: handler returns status success exactly when a completed notification
\* was POSTed and answered 2xx; every other run that reaches the pipeline
\* returns status error with a non-empty description of the first failure.
\* (The code refutes this: raise_for_status lets a final 3xx answer pass, and
\* handler returns success on it.)
C37_SuccessIffDelivered ==
    pc = "returned" =>
        /\ ret # None
        /\ (ret[1].status = "success") <=>
              (\E i \in DOMAIN posts :
                   posts[i].data.status = "completed" /\ posts[i].outcome = "2xx")
        /\ ret[1].status # "success" =>
              /\ ret[1].status = "error"
              /\ TextLen(ret[1].error.text) >= 1
              /\ \E i \in DOMAIN trace :
                    /\ trace[i].raised
                    /\ \A j \in 1 .. (i - 1) : ~trace[j].raised
                    /\ ret[1].error.stage =
                          (IF trace[i].op = "post" THEN "webhook" ELSE trace[i].stage)

====
